---- MODULE Spec2Model ----
(***************************************************************************)
(* Model of the reminder service of snaply-apk                             *)
(* (src/services/reminderService.ts).                                      *)
(*                                                                         *)
(* The service keeps one JSON array of reminders under a single            *)
(* AsyncStorage key and asks expo-notifications to schedule one            *)
(* notification per reminder, using the reminder id as the notification    *)
(* identifier.  Every exported operation is an async function: it runs     *)
(* synchronously up to an await, and other operations may run while the    *)
(* awaited promise is pending.  One action of this model is one such       *)
(* synchronous stretch: the settlement of the awaited promise (resolved or *)
(* rejected) followed by the code up to the next await.                    *)
(*                                                                         *)
(* Fields of Reminder that no operation of the service inspects            *)
(* (description, photoUri, createdAt, updatedAt) are left out of the       *)
(* records.  The field "serial" is an auxiliary identity given to each     *)
(* reminder at creation; the program does not have it, it only lets the    *)
(* properties tell two reminders with the same id apart.                   *)
(***************************************************************************)
EXTENDS Integers, Sequences, FiniteSets, TLC

\* ------------------------------------------------------------------ bounds
\* Date.now() takes the values 0..MaxClock.
MaxClock == 1
\* Number of createReminder calls in a behaviour.
MaxCreates == 2
\* Number of checkDueReminders calls in a behaviour.
MaxSweeps == 2
\* Number of async calls that can be pending at the same time.
NumTasks == 2
\* Number of calls of the service in a behaviour.
MaxCalls == 3

\* Number of notifications that notificationService schedules in a behaviour.
MaxDirect == 1
\* Five minutes, in the unit of the clock.
FiveMinutes == 1

Tasks == 1..NumTasks
Ids == 0..MaxClock
\* Scheduled times a caller may ask for: 1 comes due at the first tick of the
\* clock, MaxClock + 1 is never reached.
Dates == {1, MaxClock + 1}
Serials == 1..MaxCreates
\* The value of an absent object property.
Undefined == "undefined"
PlatformNames == {"instagram", "whatsapp"}
\* params.platforms values offered by the callers of the model.
PlatformChoices == { [instagram |-> TRUE, whatsapp |-> FALSE],
                     [instagram |-> FALSE, whatsapp |-> FALSE],
                     [instagram |-> TRUE, whatsapp |-> TRUE] }
\* params.title values offered by the callers of the model.
Titles == {"", "Launch post"}
\* The params argument of createReminder: the date varies for a titled
\* reminder with one target, the targets vary for a titled reminder at date
\* 1, and the title is empty for one reminder.
CreateParams ==
    {p \in [title : Titles, date : Dates, platforms : PlatformChoices] :
        \/ p.title # "" /\ p.platforms = [instagram |-> TRUE, whatsapp |-> FALSE]
        \/ p.title # "" /\ p.date = 1
        \/ p.date = 1 /\ p.platforms = [instagram |-> TRUE, whatsapp |-> FALSE]}
\* updates.date when the updates argument has no date property.
NoDate == 0
\* updates.id when the updates argument has no id property.
NoId == -1
\* The updates argument of updateReminder (a Partial<Reminder>): an object
\* with at most one of the properties date, completed and id.
Patches ==
    {u \in [date : Dates \cup {NoDate}, completed : {Undefined, "true", "false"},
            id : Ids \cup {NoId}] :
        Cardinality({k \in {"date", "completed", "id"} :
                        \/ k = "date" /\ u.date # NoDate
                        \/ k = "completed" /\ u.completed # Undefined
                        \/ k = "id" /\ u.id # NoId}) <= 1}
\* updateReminder called without an updates argument.
NoPatch == [date |-> NoDate, completed |-> Undefined, id |-> NoId]
\* The reminder object that handleToggleComplete passes where updateReminder
\* expects an id: it is === to the id of no reminder.
ReminderObject == MaxClock + 1

VARIABLES
    storage,        \* the array stored under REMINDERS_STORAGE_KEY
    notifications,  \* notifications scheduled in the OS, keyed by identifier
    clock,          \* Date.now()
    task,           \* the pending async calls, one record per slot
    mode,           \* which environment the behaviour runs in (fixed)
    serialCtr,      \* number of createReminder calls so far
    runCtr,         \* number of checkDueReminders calls so far
    callCtr,        \* number of calls of the service so far
    shareLog        \* shareReminder invocations made by the sweeps

vars == <<storage, notifications, clock, task, mode, serialCtr, runCtr, callCtr, shareLog>>

NoRec == [id |-> 0, title |-> "", date |-> 0, platforms |-> [instagram |-> FALSE, whatsapp |-> FALSE],
          completed |-> Undefined, serial |-> 0]

IdleTask == [pc |-> "idle", op |-> "none", id |-> 0, patch |-> NoPatch,
             rec |-> NoRec, list |-> <<>>, now |-> 0, idx |-> 0, run |-> 0,
             filtered |-> <<>>, shareOk |-> TRUE,
             result |-> "none", caught |-> FALSE,
             ioFailed |-> FALSE, schedFailed |-> FALSE,
             pre |-> [storage |-> <<>>, notifications |-> {}]]

\* ----------------------------------------------------------- pure helpers
\* Outcomes of an awaited AsyncStorage / Notifications promise:
\* TRUE = resolved, FALSE = rejected.
Outcomes == IF mode.faults THEN {TRUE, FALSE} ELSE {TRUE}

\* getReminders: the stored array, or [] when getItem rejects.
GetReminders(ok) == IF ok THEN storage ELSE <<>>

\* A findIndex whose predicate does not compare ids.
FindIndexFirst(list, id) == IF Len(list) > 0 THEN 1 ELSE 0

\* reminders.findIndex(r => r.id === id), 1-based; 0 stands for -1.
FindIndex(list, id) ==
    IF \E i \in 1..Len(list) : list[i].id = id
    THEN CHOOSE i \in 1..Len(list) :
            /\ list[i].id = id
            /\ \A j \in 1..(i - 1) : list[j].id # id
    ELSE 0

\* A filter whose predicate keeps every reminder.
FilterOutKeep(list, id) == list

\* reminders.filter(r => r.id !== id)
FilterOut(list, id) == SelectSeq(list, LAMBDA r : r.id # id)

\* { ...reminders[index], ...updates }
Merge(r, updates) ==
    [r EXCEPT !.date = IF updates.date # NoDate THEN updates.date ELSE @,
              !.completed = IF updates.completed # Undefined THEN updates.completed ELSE @,
              !.id = IF updates.id # NoId THEN updates.id ELSE @]

\* Notifications.cancelScheduledNotificationAsync(identifier)
CancelNotification(ns, id) == {n \in ns : n.id # id}

\* Notifications.scheduleNotificationAsync({trigger, identifier}): a request
\* with an identifier already in use replaces the pending one.
ScheduleNotification(ns, r) ==
    {n \in ns : n.id # r.id} \cup {[id |-> r.id, date |-> r.date]}

\* A loop that passes over the reminders without a target platform.
NextDueTargeted(list, from, now) ==
    IF \E i \in from..Len(list) :
          list[i].date <= now /\ \E p \in PlatformNames : list[i].platforms[p]
    THEN CHOOSE i \in from..Len(list) :
            /\ list[i].date <= now /\ \E p \in PlatformNames : list[i].platforms[p]
            /\ \A j \in from..(i - 1) :
                  ~(list[j].date <= now /\ \E p \in PlatformNames : list[j].platforms[p])
    ELSE 0

\* The for-of loop of checkDueReminders: index of the first reminder at or
\* after position from with reminderDate <= now; 0 when the loop is over.
NextDue(list, from, now) ==
    IF \E i \in from..Len(list) : list[i].date <= now
    THEN CHOOSE i \in from..Len(list) :
            /\ list[i].date <= now
            /\ \A j \in from..(i - 1) : list[j].date > now
    ELSE 0

\* sharePromises of shareReminder: one adapter invocation is pushed per
\* platform flag, all of them before Promise.all is awaited.
SharePromisesFirst(r) ==
    IF r.platforms.instagram THEN <<"instagram">>
    ELSE IF r.platforms.whatsapp THEN <<"whatsapp">> ELSE <<>>
SharePromises(r) ==
    (IF r.platforms.instagram THEN <<"instagram">> ELSE <<>>)
        \o (IF r.platforms.whatsapp THEN <<"whatsapp">> ELSE <<>>)

\* The adapters shareReminder invokes for a reminder.
Targets(r) == {p \in PlatformNames : r.platforms[p]}

IdsOf(list) == {list[i].id : i \in 1..Len(list)}
SerialsOf(list) == {list[i].serial : i \in 1..Len(list)}

\* ------------------------------------------------------------- scheduling
\* A call may start in slot t: t is the first free slot, and when the
\* behaviour is one without overlap no other call is pending or unacknowledged.
CanStart(t) ==
    /\ callCtr < MaxCalls
    /\ task[t].pc = "idle"
    /\ \A u \in Tasks : u < t => task[u].pc # "idle"
    /\ mode.overlap \/ \A u \in Tasks : task[u].pc = "idle"

Finish(t, res) == [task[t] EXCEPT !.pc = "done", !.result = res]

\* The collection and the scheduled notifications as a call finds them; kept
\* for calls that run without overlap, where "before the call" is one state.
Snapshot ==
    IF mode.overlap
    THEN [storage |-> <<>>, notifications |-> {}]
    ELSE [storage |-> storage, notifications |-> notifications]

Tick ==
    /\ clock < MaxClock
    /\ clock' = clock + 1
    /\ UNCHANGED <<storage, notifications, task, mode, serialCtr, runCtr, callCtr, shareLog>>

\* The caller has received the result of the call in slot t.
Ack(t) ==
    /\ task[t].pc = "done"
    /\ task' = [task EXCEPT ![t] = IdleTask]
    /\ UNCHANGED <<storage, notifications, clock, mode, serialCtr, runCtr, callCtr, shareLog>>

\* ---------------------------------------------------------- createReminder
CreateCall(t) ==
    /\ CanStart(t)
    /\ serialCtr < MaxCreates
    /\ \E params \in CreateParams :
          task' = [task EXCEPT ![t] =
                     [IdleTask EXCEPT !.pc = "c_read", !.op = "create",
                                      !.id = clock,
                                      !.rec = [id |-> clock, title |-> params.title,
                                               date |-> params.date,
                                               platforms |-> params.platforms,
                                               completed |-> Undefined,
                                               serial |-> serialCtr + 1],
                                      !.pre = Snapshot]]
    /\ serialCtr' = serialCtr + 1
    /\ UNCHANGED <<storage, notifications, clock, mode, runCtr, shareLog>>
    /\ callCtr' = callCtr + 1

CreateRead(t) ==
    /\ task[t].pc = "c_read"
    /\ \E ok \in Outcomes :
          task' = [task EXCEPT ![t].pc = "c_write",
                               ![t].ioFailed = ~ok,
                               ![t].list = Append(GetReminders(ok), task[t].rec)]
    /\ UNCHANGED <<storage, notifications, clock, mode, serialCtr, runCtr, callCtr, shareLog>>

CreateWrite(t) ==
    /\ task[t].pc = "c_write"
    /\ \E ok \in Outcomes :
          IF ok
          THEN /\ storage' = task[t].list
               /\ task' = [task EXCEPT ![t].pc = "n_cancel"]
          ELSE /\ task' = [task EXCEPT ![t] = [Finish(t, "error") EXCEPT !.ioFailed = TRUE]]
               /\ UNCHANGED storage
    /\ UNCHANGED <<notifications, clock, mode, serialCtr, runCtr, callCtr, shareLog>>

\* ------------------------------------------- scheduleReminderNotification
SchedCancel(t) ==
    /\ task[t].pc = "n_cancel"
    /\ \E ok \in Outcomes :
          IF ok
          THEN /\ notifications' = CancelNotification(notifications, task[t].rec.id)
               /\ task' = [task EXCEPT ![t].pc = "n_schedule"]
          ELSE /\ task' = [task EXCEPT ![t] = [Finish(t, "ok") EXCEPT !.schedFailed = TRUE]]
               /\ UNCHANGED notifications
    /\ UNCHANGED <<storage, clock, mode, serialCtr, runCtr, callCtr, shareLog>>

SchedSchedule(t) ==
    /\ task[t].pc = "n_schedule"
    /\ \E ok \in Outcomes :
          /\ notifications' = IF ok THEN ScheduleNotification(notifications, task[t].rec)
                                    ELSE notifications
          /\ task' = [task EXCEPT ![t] = [Finish(t, "ok") EXCEPT !.schedFailed = ~ok]]
    /\ UNCHANGED <<storage, clock, mode, serialCtr, runCtr, callCtr, shareLog>>

\* ---------------------------------------------------------- updateReminder
UpdateCall(t) ==
    /\ CanStart(t)
    /\ \E id \in Ids, updates \in Patches :
          task' = [task EXCEPT ![t] =
                     [IdleTask EXCEPT !.pc = "u_read", !.op = "update", !.id = id,
                                      !.patch = updates, !.pre = Snapshot]]
    /\ UNCHANGED <<storage, notifications, clock, mode, serialCtr, runCtr, shareLog>>
    /\ callCtr' = callCtr + 1

\* handleToggleComplete(reminder) of the home screen: it calls
\* updateReminder(updatedReminder), the whole reminder object in the place of
\* the id and no updates argument.
ToggleCall(t) ==
    /\ CanStart(t)
    /\ storage # <<>>
    /\ task' = [task EXCEPT ![t] =
                  [IdleTask EXCEPT !.pc = "u_read", !.op = "update", !.id = ReminderObject,
                                   !.patch = NoPatch, !.pre = Snapshot]]
    /\ callCtr' = callCtr + 1
    /\ UNCHANGED <<storage, notifications, clock, mode, serialCtr, runCtr, shareLog>>

UpdateRead(t) ==
    /\ task[t].pc = "u_read"
    /\ \E ok \in Outcomes :
          LET reminders == GetReminders(ok)
              index == FindIndex(reminders, task[t].id)
          IN IF index = 0
             THEN task' = [task EXCEPT ![t] = [Finish(t, "null") EXCEPT !.ioFailed = ~ok]]
             ELSE LET updatedReminder == Merge(reminders[index], task[t].patch)
                  IN task' = [task EXCEPT ![t].pc = "u_write",
                                          ![t].ioFailed = ~ok,
                                          ![t].rec = updatedReminder,
                                          ![t].list = [reminders EXCEPT ![index] = updatedReminder]]
    /\ UNCHANGED <<storage, notifications, clock, mode, serialCtr, runCtr, callCtr, shareLog>>

UpdateWrite(t) ==
    /\ task[t].pc = "u_write"
    /\ \E ok \in Outcomes :
          IF ok
          THEN /\ storage' = task[t].list
               /\ task' = IF task[t].patch.date # NoDate
                          THEN [task EXCEPT ![t].pc = "n_cancel"]
                          ELSE [task EXCEPT ![t] = Finish(t, "ok")]
          ELSE /\ task' = [task EXCEPT ![t] = [Finish(t, "error") EXCEPT !.ioFailed = TRUE]]
               /\ UNCHANGED storage
    /\ UNCHANGED <<notifications, clock, mode, serialCtr, runCtr, callCtr, shareLog>>

\* ------------------------------------------------------- checkDueReminders
\* A loop that ends at once.
LoopFromStop(tk, from) == [tk EXCEPT !.pc = "done", !.result = "void"]

\* The loop of checkDueReminders resumed at position from: either it is over
\* and the call returns, or shareReminder is invoked on the next due reminder.
LoopFrom(tk, from) ==
    LET i == NextDue(tk.list, from, tk.now)
    IN IF i = 0
       THEN [tk EXCEPT !.pc = "done", !.result = "void"]
       ELSE [tk EXCEPT !.pc = "s_share", !.idx = i, !.rec = tk.list[i], !.id = tk.list[i].id]

\* The shareReminder invocation that LoopFrom makes, if any.
LogFrom(tk, from) ==
    LET i == NextDue(tk.list, from, tk.now)
    IN IF i = 0
       THEN {}
       ELSE {[run |-> tk.run, serial |-> tk.list[i].serial, targets |-> Targets(tk.list[i]),
              invoked |-> SharePromises(tk.list[i])]}

SweepCall(t) ==
    /\ CanStart(t)
    /\ runCtr < MaxSweeps
    /\ task' = [task EXCEPT ![t] =
                  [IdleTask EXCEPT !.pc = "s_read", !.op = "sweep", !.run = runCtr + 1,
                                   !.pre = Snapshot]]
    /\ runCtr' = runCtr + 1
    /\ UNCHANGED <<storage, notifications, clock, mode, serialCtr, shareLog>>
    /\ callCtr' = callCtr + 1

SweepRead(t) ==
    /\ task[t].pc = "s_read"
    /\ \E ok \in Outcomes :
          LET tk == [task[t] EXCEPT !.list = GetReminders(ok), !.now = clock,
                                    !.ioFailed = ~ok]
          IN /\ task' = [task EXCEPT ![t] = LoopFrom(tk, 1)]
             /\ shareLog' = shareLog \cup LogFrom(tk, 1)
    /\ UNCHANGED <<storage, notifications, clock, mode, serialCtr, runCtr, callCtr>>

\* shareReminder: Promise.all over the adapters settles (the adapters catch
\* their own errors and resolve to false); checkDueReminders ignores the
\* result and calls deleteReminder(reminder.id).
ShareDone(t) ==
    /\ task[t].pc = "s_share"
    /\ \E res \in [Targets(task[t].rec) -> Outcomes] :
          task' = [task EXCEPT ![t].pc = "d_read",
                               ![t].shareOk = \A p \in Targets(task[t].rec) : res[p]]
    /\ UNCHANGED <<storage, notifications, clock, mode, serialCtr, runCtr, callCtr, shareLog>>

\* ---------------------------------------------------------- deleteReminder
\* deleteReminder throws: a direct call reports the error to its caller, a
\* call made by checkDueReminders lands in its catch block.
DeleteThrow(tk) ==
    IF tk.op = "sweep"
    THEN [tk EXCEPT !.pc = "done", !.result = "void", !.caught = TRUE]
    ELSE [tk EXCEPT !.pc = "done", !.result = "error"]

DeleteCall(t) ==
    /\ CanStart(t)
    /\ \E id \in Ids :
          task' = [task EXCEPT ![t] =
                     [IdleTask EXCEPT !.pc = "d_read", !.op = "delete", !.id = id,
                                      !.pre = Snapshot]]
    /\ UNCHANGED <<storage, notifications, clock, mode, serialCtr, runCtr, shareLog>>
    /\ callCtr' = callCtr + 1

\* The array that deleteReminder reads is kept in list for a direct call; in
\* a call made by checkDueReminders list is the array the loop runs over.
DeleteRead(t) ==
    /\ task[t].pc = "d_read"
    /\ \E ok \in Outcomes :
          task' = [task EXCEPT ![t].pc = "d_write",
                               ![t].ioFailed = @ \/ ~ok,
                               ![t].list = IF task[t].op = "delete"
                                           THEN GetReminders(ok) ELSE @,
                               ![t].filtered = FilterOut(GetReminders(ok), task[t].id)]
    /\ UNCHANGED <<storage, notifications, clock, mode, serialCtr, runCtr, callCtr, shareLog>>

DeleteWrite(t) ==
    /\ task[t].pc = "d_write"
    /\ \E ok \in Outcomes :
          IF ok
          THEN /\ storage' = task[t].filtered
               /\ task' = [task EXCEPT ![t].pc = "d_cancel"]
          ELSE /\ task' = [task EXCEPT ![t] = [DeleteThrow(task[t]) EXCEPT !.ioFailed = TRUE]]
               /\ UNCHANGED storage
    /\ UNCHANGED <<notifications, clock, mode, serialCtr, runCtr, callCtr, shareLog>>

DeleteCancel(t) ==
    /\ task[t].pc = "d_cancel"
    /\ \E ok \in Outcomes :
          IF ok
          THEN /\ notifications' = CancelNotification(notifications, task[t].id)
               /\ IF task[t].op = "sweep"
                  THEN /\ task' = [task EXCEPT ![t] = LoopFrom(task[t], task[t].idx + 1)]
                       /\ shareLog' = shareLog \cup LogFrom(task[t], task[t].idx + 1)
                  ELSE /\ task' = [task EXCEPT ![t] = Finish(t, "ok")]
                       /\ UNCHANGED shareLog
          ELSE /\ task' = [task EXCEPT ![t] = [DeleteThrow(task[t]) EXCEPT !.schedFailed = TRUE]]
               /\ UNCHANGED <<notifications, shareLog>>
    /\ UNCHANGED <<storage, clock, mode, serialCtr, runCtr, callCtr>>

\* ----------------------- notificationService.scheduleReminderNotification
\* Notifications scheduled without an identifier: the OS generates one, which
\* is the id of no reminder.
Generated(ns) == {n \in ns : n.id < 0}

\* triggerTime.setMinutes(triggerTime.getMinutes() - 5)
TriggerTime(timestamp) == timestamp - FiveMinutes

\* scheduleReminderNotification(reminder) of notificationService is called
\* with a reminder whose timestamp is one of Dates.
NotifyCall(t) ==
    /\ CanStart(t)
    /\ Cardinality(Generated(notifications)) < MaxDirect
    /\ \E timestamp \in Dates :
          task' = [task EXCEPT ![t] =
                     [IdleTask EXCEPT !.pc = "ns_schedule", !.op = "notify",
                                      !.rec = [NoRec EXCEPT !.date = timestamp],
                                      !.pre = Snapshot]]
    /\ callCtr' = callCtr + 1
    /\ UNCHANGED <<storage, notifications, clock, mode, serialCtr, runCtr, shareLog>>

\* Notifications.scheduleNotificationAsync settles; a rejection is rethrown.
NotifySchedule(t) ==
    /\ task[t].pc = "ns_schedule"
    /\ \E ok \in Outcomes :
          IF ok
          THEN /\ notifications' = notifications \cup
                      {[id |-> -(Cardinality(Generated(notifications)) + 1),
                        date |-> TriggerTime(task[t].rec.date)]}
               /\ task' = [task EXCEPT ![t] = Finish(t, "ok")]
          ELSE /\ task' = [task EXCEPT ![t] = [Finish(t, "error") EXCEPT !.schedFailed = TRUE]]
               /\ UNCHANGED notifications
    /\ UNCHANGED <<storage, clock, mode, serialCtr, runCtr, callCtr, shareLog>>

\* ---------------------------------------------------------- specifications
InitState ==
    /\ storage = <<>>
    /\ notifications = {}
    /\ clock = 0
    /\ task = [t \in Tasks |-> IdleTask]
    /\ serialCtr = 0
    /\ runCtr = 0
    /\ callCtr = 0
    /\ shareLog = {}

\* Calls overlap and awaited promises may reject.
Init == InitState /\ mode = [faults |-> TRUE, overlap |-> TRUE]
\* One call at a time; awaited promises may reject.
InitSeq == InitState /\ mode = [faults |-> TRUE, overlap |-> FALSE]
\* Calls overlap; every awaited promise resolves.
InitConc == InitState /\ mode = [faults |-> FALSE, overlap |-> TRUE]
\* One call at a time; every awaited promise resolves.
InitCalm == InitState /\ mode = [faults |-> FALSE, overlap |-> FALSE]

Next ==
    \/ Tick
    \/ \E t \in Tasks : CreateCall(t)
    \/ \E t \in Tasks : CreateRead(t)
    \/ \E t \in Tasks : CreateWrite(t)
    \/ \E t \in Tasks : SchedCancel(t)
    \/ \E t \in Tasks : SchedSchedule(t)
    \/ \E t \in Tasks : UpdateCall(t)
    \/ \E t \in Tasks : ToggleCall(t)
    \/ \E t \in Tasks : UpdateRead(t)
    \/ \E t \in Tasks : UpdateWrite(t)
    \/ \E t \in Tasks : DeleteCall(t)
    \/ \E t \in Tasks : DeleteRead(t)
    \/ \E t \in Tasks : DeleteWrite(t)
    \/ \E t \in Tasks : DeleteCancel(t)
    \/ \E t \in Tasks : SweepCall(t)
    \/ \E t \in Tasks : SweepRead(t)
    \/ \E t \in Tasks : ShareDone(t)
    \/ \E t \in Tasks : NotifyCall(t)
    \/ \E t \in Tasks : NotifySchedule(t)
    \/ \E t \in Tasks : Ack(t)

Spec == Init /\ [][Next]_vars
SpecSeq == InitSeq /\ [][Next]_vars
SpecConc == InitConc /\ [][Next]_vars
SpecCalm == InitCalm /\ [][Next]_vars

\* Every awaited promise of a run of checkDueReminders settles: the step
\* that follows an await of the run is eventually taken.
SweepStep(t) ==
    \/ SweepRead(t)
    \/ ShareDone(t)
    \/ task[t].op = "sweep" /\ (DeleteRead(t) \/ DeleteWrite(t) \/ DeleteCancel(t))
SpecLive == SpecCalm /\ \A t \in Tasks : WF_vars(SweepStep(t))

\* ------------------------------------------------------------- properties
Done(t, op) == task[t].pc = "done" /\ task[t].op = op
NotificationsFor(id) == {n \in notifications : n.id = id}
\* The id passed to the call in slot t was not in the store when it started.
Absent(t) == task[t].id \notin IdsOf(task[t].pre.storage)
\* The shareReminder invocations made for the reminder with serial s.
SharesOf(s) == {e \in shareLog : e.serial = s}

\* C1: with one call at a time, no reminder is shared by two different runs
\* of checkDueReminders.
C1_SweepTwiceSharesOnce ==
    \A e1 \in shareLog, e2 \in shareLog : e1.serial = e2.serial => e1.run = e2.run

\* C2: when createReminder is the only operation that has been called and
\* every call has returned successfully, every created reminder is stored,
\* as after any serial execution of the calls.
C2_NoLostCreate ==
    ( /\ callCtr = serialCtr
      /\ \A t \in Tasks : task[t].pc \in {"idle", "done"}
      /\ \A t \in Tasks : task[t].pc = "done" => task[t].result = "ok" )
    => SerialsOf(storage) = 1..serialCtr

\* C3: with overlapping runs of checkDueReminders, shareReminder is invoked
\* at most once for a reminder.
C3_OverlappingSweepsShareOnce ==
    \A s \in Serials : Cardinality(SharesOf(s)) <= 1

\* C4: the reminders in the store have pairwise distinct ids.
C4_UniqueIds ==
    \A i \in 1..Len(storage), j \in 1..Len(storage) :
        i # j => storage[i].id # storage[j].id

\* C5: when createReminder has returned the new reminder, exactly one
\* notification is scheduled under its id.
C5_CreateSchedulesOne ==
    \A t \in Tasks :
        (Done(t, "create") /\ task[t].result = "ok")
        => Cardinality(NotificationsFor(task[t].rec.id)) = 1

\* The date of the reminder that updateReminder in slot t found in the store.
OldDate(t) == task[t].pre.storage[FindIndex(task[t].pre.storage, task[t].id)].date

\* C6: when updateReminder has returned after changing the date from t1 to
\* t2 # t1, the only notification under the id is the one for t2.
C6_UpdateReschedules ==
    \A t \in Tasks :
        ( /\ Done(t, "update") /\ task[t].result = "ok"
          /\ task[t].patch.date # NoDate
          /\ task[t].patch.date # OldDate(t) )
        => NotificationsFor(task[t].id) = {[id |-> task[t].id, date |-> task[t].patch.date]}

\* C7: when deleteReminder(id) has returned true, no stored reminder and no
\* scheduled notification has that id.
C7_DeleteCleansUp ==
    \A t \in Tasks :
        (Done(t, "delete") /\ task[t].result = "ok")
        => /\ task[t].id \notin IdsOf(storage)
           /\ NotificationsFor(task[t].id) = {}

\* A deleteReminder(id) has returned true for an id that was stored and had
\* a notification scheduled.
C7_Witness ==
    \E t \in Tasks :
        /\ Done(t, "delete") /\ task[t].result = "ok"
        /\ task[t].id \in IdsOf(task[t].pre.storage)
        /\ \E n \in task[t].pre.notifications : n.id = task[t].id

C9_SweepAttemptsEveryDue ==
    \A t \in Tasks :
        (Done(t, "sweep") /\ Cardinality(IdsOf(task[t].list)) = Len(task[t].list))
        => \A i \in 1..Len(task[t].list) :
              task[t].list[i].date <= task[t].now
              => \E e \in shareLog : e.run = task[t].run /\ e.serial = task[t].list[i].serial

\* C10: when a run of checkDueReminders has returned without an error, every
\* reminder it shared is in the store with completed = true.
C10_SweptReminderKept ==
    \A t \in Tasks :
        (Done(t, "sweep") /\ ~task[t].caught)
        => \A e \in shareLog :
              e.run = task[t].run
              => \E i \in 1..Len(storage) :
                    storage[i].serial = e.serial /\ storage[i].completed = "true"

\* C11: a stored reminder whose completed property is true still has it
\* true after any step that keeps the reminder in the store.
C11_CompletedIsTerminal ==
    [][\A s \in Serials :
          (\E i \in 1..Len(storage) :
              storage[i].serial = s /\ storage[i].completed = "true")
          => \A j \in 1..Len(storage') :
                storage'[j].serial = s => storage'[j].completed = "true"]_vars

\* C12: no run of checkDueReminders invokes shareReminder on a reminder
\* whose completed property is true, and no call of
\* scheduleReminderNotification is made for such a reminder.
C12_CompletedNeverSharedOrScheduled ==
    \A t \in Tasks :
        task[t].pc \in {"s_share", "n_cancel", "n_schedule"}
        => task[t].rec.completed # "true"

\* C13: when createReminder has returned for params with an empty title, it
\* has reported an error, and the store and the scheduled notifications are
\* as they were before the call.
C13_EmptyTitleRejected ==
    \A t \in Tasks :
        (Done(t, "create") /\ task[t].rec.title = "")
        => /\ task[t].result = "error"
           /\ storage = task[t].pre.storage
           /\ notifications = task[t].pre.notifications

\* C14: when createReminder, updateReminder or deleteReminder has thrown, the
\* store and the scheduled notifications are as they were before the call.
C14_FailureIsAtomic ==
    \A t \in Tasks :
        ( /\ task[t].pc = "done"
          /\ task[t].op \in {"create", "update", "delete"}
          /\ task[t].result = "error" )
        => /\ storage = task[t].pre.storage
           /\ notifications = task[t].pre.notifications

\* C15: when createReminder or updateReminder has returned after a promise
\* of the notification scheduler rejected during the call, the call has
\* thrown.
C15_SchedulerFailureReported ==
    \A t \in Tasks :
        ( /\ task[t].pc = "done"
          /\ task[t].op \in {"create", "update"}
          /\ task[t].schedFailed )
        => task[t].result = "error"

\* C16: when createReminder, updateReminder or deleteReminder has returned
\* after an AsyncStorage promise rejected during the call, the call has
\* thrown and the store is as it was before the call.
C16_StoreFailureReported ==
    \A t \in Tasks :
        ( /\ task[t].pc = "done"
          /\ task[t].op \in {"create", "update", "delete"}
          /\ task[t].ioFailed )
        => /\ task[t].result = "error"
           /\ storage = task[t].pre.storage

\* C17: when deleteReminder has returned after the cancellation of the
\* notification rejected, it has returned true and no reminder with the id
\* is stored.
C17_DeleteSurvivesCancelFailure ==
    \A t \in Tasks :
        (Done(t, "delete") /\ task[t].schedFailed)
        => /\ task[t].result = "ok"
           /\ task[t].id \notin IdsOf(storage)

\* The number of adapter invocations for platform p in a shareReminder call.
InvokedCount(e, p) == Cardinality({k \in DOMAIN e.invoked : e.invoked[k] = p})

\* The shareReminder invocation of the run in slot t on the reminder it is
\* processing or has processed last.
OwnShares(t) == {e \in shareLog : e.run = task[t].run /\ e.serial = task[t].rec.serial}

\* C18: once a run of checkDueReminders has invoked shareReminder on a
\* reminder, the invocation has called the adapter of every platform whose
\* flag is true exactly once and no other adapter, whatever the outcomes of
\* the adapters are.
C18_ShareAttemptsEveryTarget ==
    \A t \in Tasks :
        (task[t].op = "sweep" /\ task[t].idx > 0)
        => /\ Cardinality(OwnShares(t)) = 1
           /\ \A e \in OwnShares(t) : \A p \in PlatformNames :
                 InvokedCount(e, p) = IF task[t].rec.platforms[p] THEN 1 ELSE 0

\* A run has shared a reminder with both flags true, a share has failed, and
\* both adapters were invoked.
C18_Witness ==
    \E t \in Tasks :
        /\ task[t].op = "sweep" /\ task[t].pc = "d_read" /\ ~task[t].shareOk
        /\ \A p \in PlatformNames : task[t].rec.platforms[p]
        /\ \E e \in OwnShares(t) : \A p \in PlatformNames : InvokedCount(e, p) = 1

\* C19: when a run of checkDueReminders has returned and the last share it
\* made has failed, the reminder of that share is no longer stored.
C19_FailedShareStillCompletes ==
    \A t \in Tasks :
        (Done(t, "sweep") /\ task[t].idx > 0 /\ ~task[t].shareOk)
        => task[t].rec.serial \notin SerialsOf(storage)

\* C20: updateReminder calls scheduleReminderNotification only when the
\* updates carry a date that differs from the stored one.
C20_SameDateNoScheduler ==
    \A t \in Tasks :
        (task[t].op = "update" /\ task[t].pc \in {"n_cancel", "n_schedule"})
        => /\ task[t].patch.date # NoDate
           /\ task[t].patch.date # OldDate(t)

\* C21: a step that keeps a reminder in the store keeps its id, whatever the
\* updates passed to updateReminder carry.
C21_IdImmutable ==
    [][\A i \in 1..Len(storage) : \A j \in 1..Len(storage') :
          storage[i].serial = storage'[j].serial => storage[i].id = storage'[j].id]_vars

\* The reminders of the collection that a run of checkDueReminders found
\* with a date later than its now.
NotDue(t) ==
    {i \in 1..Len(task[t].pre.storage) : task[t].pre.storage[i].date > task[t].now}

\* C22: when a run of checkDueReminders has returned, every reminder whose
\* date was later than the run's now is stored as it was, has not been
\* shared by the run, and the notifications under its id are as they were.
C22_SweepLeavesFutureAlone ==
    \A t \in Tasks :
        Done(t, "sweep")
        => \A i \in NotDue(t) :
              LET r == task[t].pre.storage[i]
              IN /\ \E j \in 1..Len(storage) : storage[j] = r
                 /\ \A e \in shareLog : e.run = task[t].run => e.serial # r.serial
                 /\ NotificationsFor(r.id) = {n \in task[t].pre.notifications : n.id = r.id}

\* The reminders that the run of checkDueReminders in slot t has shared and
\* that are no longer stored.
Completed(t) ==
    {i \in 1..Len(task[t].pre.storage) :
        /\ \E e \in shareLog :
              e.run = task[t].run /\ e.serial = task[t].pre.storage[i].serial
        /\ task[t].pre.storage[i].serial \notin SerialsOf(storage)}

\* C23: when a run of checkDueReminders has returned, no
\* notification is scheduled under the id of a reminder it has shared and
\* removed.
C23_SweptHasNoNotification ==
    \A t \in Tasks :
        Done(t, "sweep")
        => \A i \in Completed(t) : NotificationsFor(task[t].pre.storage[i].id) = {}

\* C24: while createReminder, updateReminder or deleteReminder awaits a call
\* of the notification scheduler, it has not yet written the store: the
\* store is as it was before the call.
C24_SchedulerBeforeStoreWrite ==
    \A t \in Tasks :
        ( /\ task[t].op \in {"create", "update", "delete"}
          /\ task[t].pc \in {"n_cancel", "n_schedule", "d_cancel"} )
        => storage = task[t].pre.storage

\* C25: when createReminder has thrown, no notification is scheduled under
\* the id of the reminder it was creating.
C25_FailedCreateLeaksNoNotification ==
    \A t \in Tasks :
        (Done(t, "create") /\ task[t].result = "error")
        => NotificationsFor(task[t].rec.id) = {}

\* C26: every notification that a step schedules has the date (timestamp) of
\* the reminder it is scheduled for as its trigger.
C26_TriggerIsScheduledTime ==
    [][\A n \in notifications' \ notifications :
          \E t \in Tasks :
              /\ task[t].pc \in {"n_schedule", "ns_schedule"}
              /\ n.date = task[t].rec.date]_vars

\* No call is pending.
Quiescent == \A t \in Tasks : task[t].pc \in {"idle", "done"}

\* C27: when no call is pending, at most one notification is scheduled
\* under each reminder id, and none under an id that no stored reminder has.
C27_QuiescentConsistency ==
    Quiescent
    => /\ \A id \in Ids : Cardinality(NotificationsFor(id)) <= 1
       /\ \A n \in notifications : n.id \in Ids => n.id \in IdsOf(storage)

\* C28: while the successful return of deleteReminder(id) is being
\* delivered, no reminder that the call found stored under id is in the
\* store.
C28_DeletedStaysDeleted ==
    \A t \in Tasks :
        (Done(t, "delete") /\ task[t].result = "ok")
        => \A i \in 1..Len(storage) :
              storage[i].id = task[t].id
              => storage[i].serial \notin SerialsOf(task[t].list)

\* The reminders of the collection that a run of checkDueReminders found
\* with a date at or before its now.
Due(t) ==
    {i \in 1..Len(task[t].pre.storage) : task[t].pre.storage[i].date <= task[t].now}

\* C29: with one call at a time and every promise resolving, a run of
\* checkDueReminders that has started returns, and when it returns no
\* reminder with a date at or before the run's now is stored.
C29_DueEventuallyLeaves ==
    \A t \in Tasks :
        [](task[t].pc = "s_read"
           => <>(/\ Done(t, "sweep")
                 /\ \A i \in 1..Len(storage) : storage[i].date > task[t].now))

\* A run has returned after it found a due reminder in the store.
C29_Witness ==
    \E t \in Tasks : Done(t, "sweep") /\ Due(t) # {} /\ task[t].idx > 0

NoTargets(r) == \A p \in PlatformNames : ~r.platforms[p]

====
